---------------------------- MODULE Spec2Model ----------------------------
(***************************************************************************)
(* CDSSMPreprocessor (matchzoo/preprocessor/cdssm_preprocessor.py): the    *)
(* fit / transform lifecycle of the letter-trigram preprocessor, with the  *)
(* process units it drives (normalization, letter n-grams, vocabulary,     *)
(* word hashing, fixed length, sliding window).                            *)
(*                                                                         *)
(* The orchestrator (__init__, fit, transform) is translated from the      *)
(* source.  The process units, SegmentMixin.segment, the DataPack, the     *)
(* validate_context decorator and BasePreprocessor.fit_transform live in   *)
(* other files of the package; they are written from their contracts in    *)
(* the design document (sections 3, 4, 6 and 7).                           *)
(***************************************************************************)
EXTENDS Integers, Sequences, FiniteSets, TLC

\* ------------------------------------------------------------------------
\* Values
\* ------------------------------------------------------------------------

\* Python's None: the datapack slot before fit, and a text slot that holds
\* no string.
None == [kind |-> "none"]

\* A Python str, as its sequence of characters.
Str(chars) == [kind |-> "str", val |-> chars]

\* A transformed text slot: the list of windows written back by transform.
Tensor(windows) == [kind |-> "tensor", val |-> windows]

\* A dict with no key (the DataPack's context before any fit).
EmptyDict == [k \in {} |-> 0]

\* d[k] = v of a Python dict.
Put(d, k, v) == [x \in DOMAIN d \cup {k} |-> IF x = k THEN v ELSE d[x]]

\* ------------------------------------------------------------------------
\* The texts the inputs are drawn from.  An id names one text, as in a
\* dataset where a query or document id identifies its content.  q2 and d2
\* have no token left after normalization; d3 is a missing text.
\* ------------------------------------------------------------------------

TextOf ==
    [ q1 |-> Str(<<"B">>),
      q2 |-> Str(<<"A", " ", ".">>),
      d1 |-> Str(<<"c", "b", " ", "b", " ", "C", " ", "b">>),
      d2 |-> Str(<<>>),
      d3 |-> None,
      d4 |-> Str(<<"c", "c", " ", "b", ",", "C", " ", "b">>) ]

\* ------------------------------------------------------------------------
\* Process units
\* ------------------------------------------------------------------------

Punctuation == {".", ","}

Stopwords == {<<"a">>, <<"i", "s">>}

Lower(c) ==
    CASE c = "A" -> "a"
      [] c = "B" -> "b"
      [] c = "C" -> "c"
      [] OTHER -> c

RECURSIVE FlattenSeq(_)
\* np.array(x).flatten() / list concatenation of a list of lists.
FlattenSeq(ss) ==
    IF ss = <<>> THEN <<>> ELSE Head(ss) \o FlattenSeq(Tail(ss))

RECURSIVE SelectTokens(_, _)
\* The tokens of a list that are not in a given set, in order.
SelectTokens(tokens, drop) ==
    IF tokens = <<>> THEN <<>>
    ELSE IF Head(tokens) \in drop
         THEN SelectTokens(Tail(tokens), drop)
         ELSE <<Head(tokens)>> \o SelectTokens(Tail(tokens), drop)

RECURSIVE Split(_, _)
\* TokenizeUnit: words are split at blanks, a punctuation mark is a token
\* of its own.  cur is the word being read.
Split(chars, cur) ==
    LET flush == IF cur = <<>> THEN <<>> ELSE <<cur>> IN
    IF chars = <<>> THEN flush
    ELSE IF Head(chars) = " " THEN flush \o Split(Tail(chars), <<>>)
    ELSE IF Head(chars) \in Punctuation
         THEN flush \o <<<<Head(chars)>>>> \o Split(Tail(chars), <<>>)
    ELSE Split(Tail(chars), Append(cur, Head(chars)))

TokenizeUnit(chars) == Split(chars, <<>>)

LowercaseUnit(tokens) ==
    [i \in 1..Len(tokens) |->
        [j \in 1..Len(tokens[i]) |-> Lower(tokens[i][j])]]

PuncRemovalUnit(tokens) ==
    SelectTokens(tokens, {<<p>> : p \in Punctuation})

StopRemovalUnit(tokens) == SelectTokens(tokens, Stopwords)

\* _prepare_process_units, applied in order to one text.
prepare_process_units(chars) ==
    StopRemovalUnit(PuncRemovalUnit(LowercaseUnit(TokenizeUnit(chars))))

\* Length of a letter n-gram ("letter-trigram").
NgramLen == 3

\* NgramLetterUnit on one token: the token between two '#' marks, cut into
\* the overlapping substrings of NgramLen characters.
NgramsOfToken(token) ==
    LET marked == <<"#">> \o token \o <<"#">> IN
    [i \in 1..(Len(marked) - NgramLen + 1) |->
        SubSeq(marked, i, i + NgramLen - 1)]

\* NgramLetterUnit on a list of tokens: the n-grams of all tokens, in order.
NgramLetterUnit(tokens) ==
    FlattenSeq([i \in 1..Len(tokens) |-> NgramsOfToken(tokens[i])])

RECURSIVE FirstSeen(_, _)
\* The distinct elements of a list in the order of their first occurrence.
FirstSeen(terms, seen) ==
    IF terms = <<>> THEN seen
    ELSE IF \E i \in 1..Len(seen) : seen[i] = Head(terms)
         THEN FirstSeen(Tail(terms), seen)
         ELSE FirstSeen(Tail(terms), Append(seen, Head(terms)))

\* VocabularyUnit.fit: term -> index, from 1, in first-seen order.
VocabularyUnit(vocab) ==
    LET order == FirstSeen(vocab, <<>>) IN
    [t \in {order[i] : i \in 1..Len(order)} |->
        CHOOSE i \in 1..Len(order) : order[i] = t]

\* WordHashingUnit(term_index) on the n-grams of one token: the vector of
\* len(term_index) + 1 positions (0-based in the program, position p is
\* element p + 1 here) with a 1 at the index of every term of the token, and
\* at position 0 for a term that is not in the vocabulary.  For a single
\* term it is the one-hot vector of that term.
WordHashingUnit(term_index, terms) ==
    LET pos(t) == IF t \in DOMAIN term_index THEN term_index[t] ELSE 0 IN
    [p \in 1..(Cardinality(DOMAIN term_index) + 1) |->
        IF \E i \in 1..Len(terms) : pos(terms[i]) + 1 = p THEN 1 ELSE 0]

\* FixedLengthUnit(text_length, pad_value, pad_mode, truncate_mode).
FixedLengthUnit(L, v, pad, trunc, tokens) ==
    LET n == Len(tokens) IN
    IF n > L
    THEN IF trunc = "pre" THEN SubSeq(tokens, n - L + 1, n)
                          ELSE SubSeq(tokens, 1, L)
    ELSE LET fill == [i \in 1..(L - n) |-> v] IN
         IF pad = "pre" THEN fill \o tokens ELSE tokens \o fill

\* np.reshape(text, (rows, -1)).
Reshape(flat, rows) ==
    LET cols == Len(flat) \div rows IN
    [i \in 1..rows |-> SubSeq(flat, (i - 1) * cols + 1, i * cols)]

\* SlidingWindowUnit(window): window i is rows i .. i + window - 1, joined.
SlidingWindowUnit(window, rows) ==
    [i \in 1..(Len(rows) - window + 1) |->
        FlattenSeq(SubSeq(rows, i, i + window - 1))]


\* ------------------------------------------------------------------------
\* Inputs of the calls
\* ------------------------------------------------------------------------

\* One input tuple: (id_left, id_right, text_left, text_right, label) with a
\* label, (id_left, id_right, text_left, text_right) without.
InputTuple(q, d, labelled) ==
    IF labelled THEN <<q, d, TextOf[q], TextOf[d], 1>>
                ELSE <<q, d, TextOf[q], TextOf[d]>>

\* The (left id, right id) pairs of the training set and of the test set,
\* in their order.
TrainPairs == << <<"q1", "d1">>, <<"q2", "d2">>, <<"q1", "d3">> >>

TestPairs == << <<"q1", "d4">>, <<"q2", "d2">>, <<"q1", "d3">> >>

RECURSIVE Pick(_, _, _)
\* The pairs of a list whose positions are in a set, in order.
Pick(pairs, S, i) ==
    IF i > Len(pairs) THEN <<>>
    ELSE (IF i \in S THEN <<pairs[i]>> ELSE <<>>) \o Pick(pairs, S, i + 1)

\* Every selection of the pairs of a list, as input tuples.
Selections(pairs, labelled) ==
    { [i \in 1..Len(Pick(pairs, S, 1)) |->
          InputTuple(Pick(pairs, S, 1)[i][1], Pick(pairs, S, 1)[i][2],
                     labelled)] :
        S \in SUBSET (1..Len(pairs)) }

\* The input lists of the calls: the selections of the training set, with
\* labels, and the selections of the test set, without.
InputLists == Selections(TrainPairs, TRUE) \cup Selections(TestPairs, FALSE)

Stages == {"train", "test"}

\* ------------------------------------------------------------------------
\* DataPack and SegmentMixin
\* ------------------------------------------------------------------------

RECURSIVE DropDuplicates(_, _)
\* The (id, text) rows of a table, the first row of every id, in order.
DropDuplicates(rows, kept) ==
    IF rows = <<>> THEN kept
    ELSE IF \E i \in 1..Len(kept) : kept[i][1] = Head(rows)[1]
         THEN DropDuplicates(Tail(rows), kept)
         ELSE DropDuplicates(Tail(rows), Append(kept, Head(rows)))

\* Number of fields of an input tuple of a stage.
Arity(stage) == IF stage = "train" THEN 5 ELSE 4

\* segment raises on a tuple that has not the fields of the stage.
segment_raises(inputs, stage) ==
    \E i \in 1..Len(inputs) : Len(inputs[i]) # Arity(stage)

\* SegmentMixin.segment: the relation table and the two text tables.  A
\* text table is keyed by id (transform writes a row back by its id), so it
\* has one row per id.  The DataPack it builds carries the process-wide
\* context.
segment(inputs, stage) ==
    LET lrows == DropDuplicates(
                    [i \in 1..Len(inputs) |-> <<inputs[i][1], inputs[i][3]>>],
                    <<>>)
        rrows == DropDuplicates(
                    [i \in 1..Len(inputs) |-> <<inputs[i][2], inputs[i][4]>>],
                    <<>>)
    IN [ kind |-> "datapack",
         relation |-> [i \in 1..Len(inputs) |->
                         IF stage = "train"
                         THEN <<inputs[i][1], inputs[i][2], inputs[i][5]>>
                         ELSE <<inputs[i][1], inputs[i][2]>>],
         left |-> [i \in 1..Len(lrows) |->
                     [id_left |-> lrows[i][1], text_left |-> lrows[i][2]]],
         right |-> [i \in 1..Len(rrows) |->
                     [id_right |-> rrows[i][1], text_right |-> rrows[i][2]]] ]

\* ------------------------------------------------------------------------
\* CDSSMPreprocessor
\* ------------------------------------------------------------------------

VARIABLES
    self,        \* the preprocessor object: datapack and the constructor's fields
    context,     \* the DataPack context dict, one for the process
    call,        \* the last call made on the preprocessor and how it ended
    fit_called,  \* whether fit has been entered since construction
    fit_inputs,  \* the inputs segmented by the most recent fit
    probe        \* a process unit of transform applied on its own

vars == <<self, context, call, fit_called, fit_inputs, probe>>

\* Faulty variant of text_length_of: the overlap of the windows is not
\* taken off.
text_length_no_overlap(sliding_window, window_nb) ==
    window_nb + sliding_window

\* self._text_length of __init__.
text_length_of(sliding_window, window_nb) == window_nb + sliding_window - 1

\* CDSSMPreprocessor.__init__
init(sliding_window, window_nb, pad_value, pad_mode, truncate_mode) ==
    [ datapack |-> None,
      window |-> sliding_window,
      window_nb |-> window_nb,
      pad_value |-> pad_value,
      pad_mode |-> pad_mode,
      truncate_mode |-> truncate_mode,
      text_length |-> text_length_of(sliding_window, window_nb) ]

\* What a call leaves behind: the object, the context, and "ok" or the
\* exception that ended the call.
Result(s, ctx, outcome) == [self |-> s, context |-> ctx, outcome |-> outcome]

\* A process unit's transform raises on a text that is not a str.
IsStr(text) == text.kind = "str"

LeftTexts(dp) == [i \in 1..Len(dp.left) |-> dp.left[i].text_left]

RightTexts(dp) == [i \in 1..Len(dp.right) |-> dp.right[i].text_right]

\* Faulty variant of fit_vocab: the loop over datapack.right is left out.
fit_vocab_left_only(dp) ==
    LET texts == LeftTexts(dp) IN
    FlattenSeq([i \in 1..Len(texts) |->
        NgramLetterUnit(prepare_process_units(texts[i].val))])

\* fit, the two loops: the n-grams of every left text, then of every right
\* text, appended to vocab.
fit_vocab(dp) ==
    LET texts == LeftTexts(dp) \o RightTexts(dp) IN
    FlattenSeq([i \in 1..Len(texts) |->
        NgramLetterUnit(prepare_process_units(texts[i].val))])

\* fit, "Store the fitted parameters in context": three assignments.
fit_context(s, ctx, term_index) ==
    LET dim == Cardinality(DOMAIN term_index) + 1
        c1 == Put(ctx, "term_index", term_index)
        c2 == Put(c1, "dims", dim)
    IN Put(c2, "input_shapes",
           << <<s.window_nb, dim * s.window>>,
              <<s.window_nb, dim * s.window>> >>)

\* Faulty variant of fit: the context of the new datapack is emptied as
\* soon as the datapack is built, before the texts are read.
fit_fresh_context(s, ctx, inputs) ==
    IF segment_raises(inputs, "train")
    THEN Result(s, ctx, "MalformedRecord")
    ELSE LET dp == segment(inputs, "train")
             s1 == [s EXCEPT !.datapack = dp]
             texts == LeftTexts(dp) \o RightTexts(dp)
         IN IF \E i \in 1..Len(texts) : ~IsStr(texts[i])
            THEN Result(s1, EmptyDict, "TypeError")
            ELSE Result(s1,
                        fit_context(s1, EmptyDict,
                                    VocabularyUnit(fit_vocab(dp))),
                        "ok")

\* CDSSMPreprocessor.fit
fit(s, ctx, inputs) ==
    IF segment_raises(inputs, "train")
    THEN Result(s, ctx, "MalformedRecord")
    ELSE LET dp == segment(inputs, "train")
             s1 == [s EXCEPT !.datapack = dp]
             texts == LeftTexts(dp) \o RightTexts(dp)
         IN IF \E i \in 1..Len(texts) : ~IsStr(texts[i])
            THEN Result(s1, ctx, "TypeError")
            ELSE Result(s1,
                        fit_context(s1, ctx, VocabularyUnit(fit_vocab(dp))),
                        "ok")

\* utils.validate_context: transform needs a fitted context.
validate_context_raises(s, ctx) ==
    s.datapack.kind = "none" \/ DOMAIN ctx = {}

\* Faulty variant of fix_length: dims is left out.
fix_length_rows(s, ctx) == s.text_length

\* transform: the length handed to FixedLengthUnit.
fix_length(s, ctx) == s.text_length * ctx["dims"]

\* Faulty variant of fix_unit_transform: pad_mode and truncate_mode are
\* handed over in the other order.
fix_unit_transform_swapped(s, ctx, flat) ==
    FixedLengthUnit(s.text_length * ctx["dims"], s.pad_value,
                    s.truncate_mode, s.pad_mode, flat)

\* transform: fix_unit as it is built, applied to a flat list.
fix_unit_transform(s, ctx, flat) ==
    FixedLengthUnit(fix_length(s, ctx), s.pad_value, s.pad_mode,
                    s.truncate_mode, flat)

\* transform: np.reshape(text, (self._text_length, -1)), then slide_unit.
slide_unit_transform(s, fixed) ==
    SlidingWindowUnit(s.window, Reshape(fixed, s.text_length))

\* transform, the body of a loop up to the write-back, for one text.
transform_text(s, ctx, chars) ==
    LET tokens == prepare_process_units(chars)
        grams == [i \in 1..Len(tokens) |-> NgramLetterUnit(<<tokens[i]>>)]
        hashed == [i \in 1..Len(tokens) |->
                      WordHashingUnit(ctx["term_index"], grams[i])]
    IN slide_unit_transform(s,
           fix_unit_transform(s, ctx, FlattenSeq(hashed)))

\* Index of the first row a loop raises on, Len + 1 when it raises on none.
FirstBad(texts) ==
    LET bad == {i \in 1..Len(texts) : ~IsStr(texts[i])} IN
    IF bad = {} THEN Len(texts) + 1
    ELSE CHOOSE i \in bad : \A j \in bad : i <= j

\* transform, the loop over datapack.left: rows are rewritten in place, in
\* order, up to the row that raises.
transform_left(s, ctx, left) ==
    LET stop == FirstBad([i \in 1..Len(left) |-> left[i].text_left]) IN
    [ rows |-> [i \in 1..Len(left) |->
                  IF i < stop
                  THEN [left[i] EXCEPT !.text_left =
                          Tensor(transform_text(s, ctx, left[i].text_left.val))]
                  ELSE left[i]],
      raised |-> stop <= Len(left) ]

\* transform, the loop over datapack.right.
transform_right(s, ctx, right) ==
    LET stop == FirstBad([i \in 1..Len(right) |-> right[i].text_right]) IN
    [ rows |-> [i \in 1..Len(right) |->
                  IF i < stop
                  THEN [right[i] EXCEPT !.text_right =
                          Tensor(transform_text(s, ctx, right[i].text_right.val))]
                  ELSE right[i]],
      raised |-> stop <= Len(right) ]

\* transform from "prepare pipeline unit" on: the two loops over the held
\* datapack, which is returned.
transform_rows(s, ctx) ==
    LET l == transform_left(s, ctx, s.datapack.left)
        s2 == [s EXCEPT !.datapack.left = l.rows]
    IN IF l.raised
       THEN Result(s2, ctx, "TypeError")
       ELSE LET r == transform_right(s2, ctx, s2.datapack.right)
                s3 == [s2 EXCEPT !.datapack.right = r.rows]
            IN Result(s3, ctx, IF r.raised THEN "TypeError" ELSE "ok")

\* Faulty variant of transform: the inputs of the test stage are segmented
\* before the context is validated.
transform_segments_first(s, ctx, inputs, stage) ==
    IF stage = "test" /\ ~segment_raises(inputs, stage)
    THEN LET s1 == [s EXCEPT !.datapack = segment(inputs, stage)] IN
         IF validate_context_raises(s1, ctx)
         THEN Result(s1, ctx, "MissingContext")
         ELSE transform_rows(s1, ctx)
    ELSE IF validate_context_raises(s, ctx)
    THEN Result(s, ctx, "MissingContext")
    ELSE IF stage = "test"
    THEN Result(s, ctx, "MalformedRecord")
    ELSE transform_rows(s, ctx)

\* Faulty variant of transform: the test stage builds the vocabulary again,
\* from the inputs it segments.
transform_refits(s, ctx, inputs, stage) ==
    IF validate_context_raises(s, ctx)
    THEN Result(s, ctx, "MissingContext")
    ELSE IF stage = "test" /\ segment_raises(inputs, stage)
    THEN Result(s, ctx, "MalformedRecord")
    ELSE IF stage = "test"
    THEN LET dp == segment(inputs, stage)
             s1 == [s EXCEPT !.datapack = dp]
             texts == LeftTexts(dp) \o RightTexts(dp)
         IN IF \E i \in 1..Len(texts) : ~IsStr(texts[i])
            THEN transform_rows(s1, ctx)
            ELSE transform_rows(s1,
                    fit_context(s1, ctx, VocabularyUnit(fit_vocab(dp))))
    ELSE transform_rows(s, ctx)

\* CDSSMPreprocessor.transform
transform(s, ctx, inputs, stage) ==
    IF validate_context_raises(s, ctx)
    THEN Result(s, ctx, "MissingContext")
    ELSE IF stage = "test" /\ segment_raises(inputs, stage)
    THEN Result(s, ctx, "MalformedRecord")
    ELSE transform_rows(IF stage = "test"
                        THEN [s EXCEPT !.datapack = segment(inputs, stage)]
                        ELSE s,
                        ctx)

\* BasePreprocessor.fit_transform: fit, then transform of the same inputs.
fit_transform(s, ctx, inputs, stage) ==
    LET f == fit(s, ctx, inputs) IN
    IF f.outcome # "ok" THEN f
    ELSE transform(f.self, f.context, inputs, stage)

\* ------------------------------------------------------------------------
\* The calls a client makes
\* ------------------------------------------------------------------------

\* Constructor arguments: (sliding_window, window_nb, pad_value, pad_mode,
\* truncate_mode).  Both have text_length 3, which the four tokens of d1
\* exceed and the other texts do not reach.
Configs == { <<2, 2, 0, "pre", "pre">>, <<1, 3, 0, "post", "post">> }

Init ==
    /\ \E c \in Configs : self = init(c[1], c[2], c[3], c[4], c[5])
    /\ context = EmptyDict
    /\ call = [op |-> "init"]
    /\ fit_called = FALSE
    /\ fit_inputs = <<>>
    /\ probe = [unit |-> "none"]

Fit ==
    \E inputs \in InputLists :
        \E r \in {fit(self, context, inputs)} :
        /\ self' = r.self
        /\ context' = r.context
        /\ call' = [op |-> "fit", inputs |-> inputs, outcome |-> r.outcome]
        /\ fit_called' = TRUE
        /\ fit_inputs' = IF r.outcome = "MalformedRecord" THEN fit_inputs
                         ELSE inputs
        /\ UNCHANGED probe

Transform ==
    \E inputs \in InputLists, stage \in Stages :
        \E r \in {transform(self, context, inputs, stage)} :
        /\ self' = r.self
        /\ context' = r.context
        /\ call' = [op |-> "transform", inputs |-> inputs, stage |-> stage,
                    outcome |-> r.outcome]
        /\ UNCHANGED <<fit_called, fit_inputs, probe>>

FitTransform ==
    \E inputs \in InputLists, stage \in Stages :
        \E r \in {fit_transform(self, context, inputs, stage)} :
        /\ self' = r.self
        /\ context' = r.context
        /\ call' = [op |-> "fit_transform", inputs |-> inputs,
                    stage |-> stage, outcome |-> r.outcome]
        /\ fit_called' = TRUE
        /\ fit_inputs' = IF segment_raises(inputs, "train") THEN fit_inputs
                         ELSE inputs
        /\ UNCHANGED probe

Next == Fit \/ Transform \/ FitTransform

Spec == Init /\ [][Next]_vars

\* ------------------------------------------------------------------------
\* The length and window steps of transform on their own: the preprocessor
\* is built and fitted to a vocabulary of dims - 1 terms, then fix_unit is
\* applied to a flat list and slide_unit to what fix_unit returned.
\* ------------------------------------------------------------------------

\* Longest flat list handed to fix_unit.
MaxFlat == 7

\* Largest dims of the fitted context.
MaxDims == 2

FlatLists == UNION { [1..n -> {1, 2}] : n \in 0..MaxFlat }

UnitConfigs ==
    { <<w[1], w[2], 0, p, t>> :
        w \in { <<2, 2>>, <<1, 3>> }, p \in {"pre", "post"},
        t \in {"pre", "post"} }

InitUnits ==
    /\ \E c \in UnitConfigs, d \in 1..MaxDims :
          /\ self = init(c[1], c[2], c[3], c[4], c[5])
          /\ context = fit_context(self, EmptyDict, [t \in 1..(d - 1) |-> t])
    /\ call = [op |-> "init"]
    /\ fit_called = FALSE
    /\ fit_inputs = <<>>
    /\ probe = [unit |-> "none"]

ApplyFix ==
    /\ \E flat \in FlatLists :
          probe' = [unit |-> "fix", input |-> flat,
                    output |-> fix_unit_transform(self, context, flat)]
    /\ UNCHANGED <<self, context, call, fit_called, fit_inputs>>

ApplySlide ==
    /\ probe.unit = "fix"
    /\ probe' = [unit |-> "slide", input |-> probe.output,
                 output |-> slide_unit_transform(self, probe.output)]
    /\ UNCHANGED <<self, context, call, fit_called, fit_inputs>>

NextUnits == ApplyFix \/ ApplySlide

SpecUnits == InitUnits /\ [][NextUnits]_vars

\* ------------------------------------------------------------------------
\* Properties
\* ------------------------------------------------------------------------

ContextKeys == {"term_index", "dims", "input_shapes"}

\* The context holds the three fitted parameters, and they agree with each
\* other and with the constructor's fields.
Consistent(s, ctx) ==
    /\ DOMAIN ctx = ContextKeys
    /\ ctx["dims"] = Cardinality(DOMAIN ctx["term_index"]) + 1
    /\ ctx["input_shapes"] =
          << <<s.window_nb, ctx["dims"] * s.window>>,
             <<s.window_nb, ctx["dims"] * s.window>> >>

\* The input tuples have the fields of the stage and their texts are strs.
WellFormed(inputs, stage) ==
    \A i \in 1..Len(inputs) :
        /\ Len(inputs[i]) = Arity(stage)
        /\ IsStr(inputs[i][3])
        /\ IsStr(inputs[i][4])

\* The ids a datapack holds: the pairs of its relation table and the ids of
\* its two text tables.
RecordIds(dp) ==
    [ relation |-> [i \in 1..Len(dp.relation) |->
                      <<dp.relation[i][1], dp.relation[i][2]>>],
      left |-> [i \in 1..Len(dp.left) |-> dp.left[i].id_left],
      right |-> [i \in 1..Len(dp.right) |-> dp.right[i].id_right] ]

\* The set of letter n-grams of one text.
TermSet(text) ==
    LET tokens == prepare_process_units(text.val) IN
    UNION { { NgramsOfToken(tokens[k])[j] :
                j \in 1..Len(NgramsOfToken(tokens[k])) } :
            k \in 1..Len(tokens) }

\* The set of letter n-grams of all left and right texts of an input list.
DistinctTerms(inputs) ==
    UNION { TermSet(inputs[i][3]) \cup TermSet(inputs[i][4]) :
            i \in 1..Len(inputs) }

\* The transformed texts of the held datapack.
HeldTexts == LeftTexts(self.datapack) \o RightTexts(self.datapack)

\* Number of tokens of the text of an id.
TokenCount(id) == Len(prepare_process_units(TextOf[id].val))

\* C1: on a preprocessor whose fit was never called, transform (either
\* stage) ends with the missing-context error and changes nothing: no
\* datapack is held and no record is processed.
C1_TransformBeforeFit ==
    [][ (~fit_called /\ call'.op = "transform")
        => /\ call'.outcome = "MissingContext"
           /\ self'.datapack.kind = "none"
           /\ self' = self
           /\ context' = context ]_vars

C1_Witness ==
    /\ ~fit_called
    /\ call.op = "transform"
    /\ call.stage = "test"
    /\ WellFormed(call.inputs, "test")
    /\ call.inputs # <<>>
    /\ call.outcome = "MissingContext"
    /\ self.datapack.kind = "none"

\* C2: once fitted, a transform call of either stage, with any inputs and
\* however it ends, leaves the context (term_index, dims, input_shapes) as
\* fit stored it.
C2_TransformKeepsContext ==
    [][ (call'.op = "transform" /\ Consistent(self, context))
        => (context' = context /\ Consistent(self', context')) ]_vars

C2_Witness ==
    /\ call.op = "transform"
    /\ call.stage = "test"
    /\ call.outcome = "ok"
    /\ Consistent(self, context)
    /\ context["dims"] > 1
    /\ DistinctTerms(call.inputs) # {}
    /\ DistinctTerms(call.inputs) # DOMAIN context["term_index"]

\* C3: in the datapack a transform returns, every left and every right
\* text is a list of exactly window_nb windows, each of dims *
\* sliding_window numbers, whatever the number of tokens of the text.
C3_WindowShape ==
    (call.op \in {"transform", "fit_transform"} /\ call.outcome = "ok")
    => \A i \in 1..Len(HeldTexts) :
          /\ HeldTexts[i].kind = "tensor"
          /\ Len(HeldTexts[i].val) = self.window_nb
          /\ \A w \in 1..Len(HeldTexts[i].val) :
                Len(HeldTexts[i].val[w]) = context["dims"] * self.window

C3_Witness ==
    /\ call.op = "transform"
    /\ call.outcome = "ok"
    /\ context["dims"] > 1
    /\ \E i \in 1..Len(self.datapack.left) :
          TokenCount(self.datapack.left[i].id_left) = 0
    /\ \E i \in 1..Len(self.datapack.left) :
          /\ TokenCount(self.datapack.left[i].id_left) > 0
          /\ TokenCount(self.datapack.left[i].id_left) < self.text_length
    /\ \E i \in 1..Len(self.datapack.right) :
          TokenCount(self.datapack.right[i].id_right) > self.text_length

\* C4: a fit on a fitted preprocessor leaves a complete and consistent
\* context however it ends: the previous one when fit raises, while
\* segmenting or while reading a text.
C4_FitReplacesContextWhole ==
    [][ (call'.op \in {"fit", "fit_transform"} /\ Consistent(self, context))
        => /\ Consistent(self', context')
           /\ (call'.op = "fit" /\ call'.outcome # "ok")
                 => context' = context ]_vars

C4_Witness ==
    /\ call.op = "fit"
    /\ call.outcome = "TypeError"
    /\ Consistent(self, context)
    /\ context["dims"] > 1
    /\ RecordIds(self.datapack) = RecordIds(segment(call.inputs, "train"))

\* C5: a transform of stage 'test' returns the records segmented from its
\* inputs, and a transform of stage 'train' returns the records segmented
\* by the most recent fit.
C5_ReturnedRecords ==
    (call.op = "transform" /\ call.outcome = "ok")
    => IF call.stage = "test"
       THEN RecordIds(self.datapack) = RecordIds(segment(call.inputs, "test"))
       ELSE RecordIds(self.datapack) = RecordIds(segment(fit_inputs, "train"))

\* C6: after a fit that succeeds, dims is the number of distinct n-grams of
\* all left and right texts of the inputs plus 1, and input_shapes is twice
\* the tuple (window_nb, dims * sliding_window).
C6_DimsAndShapes ==
    (call.op = "fit" /\ call.outcome = "ok")
    => /\ DOMAIN context = ContextKeys
       /\ context["dims"] = Cardinality(DistinctTerms(call.inputs)) + 1
       /\ context["input_shapes"] =
             << <<self.window_nb, context["dims"] * self.window>>,
                <<self.window_nb, context["dims"] * self.window>> >>

C6_Witness ==
    /\ call.op = "fit"
    /\ call.outcome = "ok"
    /\ Len(call.inputs) = 2
    /\ TermSet(call.inputs[1][4]) # {}
    /\ ~(TermSet(call.inputs[1][4]) \subseteq TermSet(call.inputs[1][3]))
    /\ context["dims"] = 5

\* C7: fit_transform of well-formed inputs of its stage (tuples with a label
\* for 'train', without for 'test') does not raise and leaves the
\* preprocessor fitted.
C7_FitTransformSucceeds ==
    (call.op = "fit_transform" /\ WellFormed(call.inputs, call.stage))
    => (call.outcome = "ok" /\ Consistent(self, context))

\* One row of a window of a zero-term context: the out-of-vocabulary
\* indicator, or padding.
OOVOrZero(x) == x \in {0, 1}

\* C8: after a fit that found no term (dims = 1), every transform of
\* well-formed inputs ends without an exception and yields windows that
\* hold nothing but the out-of-vocabulary indicator and zeros.
C8_ZeroTermFit ==
    (/\ call.op = "transform"
     /\ Consistent(self, context)
     /\ context["dims"] = 1
     /\ WellFormed(call.inputs, call.stage))
    => /\ call.outcome = "ok"
       /\ \A i \in 1..Len(HeldTexts) :
             /\ HeldTexts[i].kind = "tensor"
             /\ \A w \in 1..Len(HeldTexts[i].val) :
                   \A k \in 1..Len(HeldTexts[i].val[w]) :
                      OOVOrZero(HeldTexts[i].val[w][k])

\* C9: fix_unit returns exactly text_length * dims elements: a shorter list
\* gets pad_value in front (pad_mode 'pre') or behind ('post'), a longer one
\* loses its first (truncate_mode 'pre') or last ('post') elements, and the
\* elements that stay keep their order.
C9_FixedLength ==
    probe.unit = "fix"
    => LET L == self.text_length * context["dims"]
           in == probe.input
           out == probe.output
           n == Len(probe.input)
       IN /\ Len(out) = L
          /\ (n <= L /\ self.pad_mode = "pre")
                => /\ \A i \in 1..(L - n) : out[i] = self.pad_value
                   /\ \A i \in 1..n : out[L - n + i] = in[i]
          /\ (n <= L /\ self.pad_mode = "post")
                => /\ \A i \in 1..n : out[i] = in[i]
                   /\ \A i \in (n + 1)..L : out[i] = self.pad_value
          /\ (n > L /\ self.truncate_mode = "pre")
                => \A i \in 1..L : out[i] = in[n - L + i]
          /\ (n > L /\ self.truncate_mode = "post")
                => \A i \in 1..L : out[i] = in[i]

C9_Witness ==
    /\ probe.unit = "fix"
    /\ Len(probe.input) > self.text_length * context["dims"]
    /\ self.truncate_mode = "post"
    /\ self.pad_mode = "pre"
    /\ probe.input[1] # probe.input[Len(probe.input)]
    /\ context["dims"] > 1

\* C10: slide_unit returns exactly window_nb windows, window i being rows
\* i .. i + sliding_window - 1 of the text_length rows of dims columns, in
\* order, so that a window and the next share sliding_window - 1 rows.
C10_SlidingWindows ==
    probe.unit = "slide"
    => LET d == context["dims"]
           w == self.window
           row(i) == SubSeq(probe.input, (i - 1) * d + 1, i * d)
           out == probe.output
       IN /\ Len(probe.input) = (self.window_nb + w - 1) * d
          /\ Len(out) = self.window_nb
          /\ \A i \in 1..Len(out) :
                /\ Len(out[i]) = d * w
                /\ \A k \in 1..w :
                      SubSeq(out[i], (k - 1) * d + 1, k * d) = row(i + k - 1)
          /\ \A i \in 1..(Len(out) - 1) :
                SubSeq(out[i], d + 1, w * d) = SubSeq(out[i + 1], 1, (w - 1) * d)

C10_Witness ==
    /\ probe.unit = "slide"
    /\ self.window = 2
    /\ self.window_nb = 2
    /\ context["dims"] = 2
    /\ probe.output[1] # probe.output[2]
    /\ probe.input = <<1, 2, 2, 1, 1, 1>>

=============================================================================
